---- MODULE Spec2Model ----
(***************************************************************************)
(* Model of the Equinix Fabric MCP server (src/server.py): the OAuth2      *)
(* token cache of EquinixClient, the authenticated request pipeline, the   *)
(* payload builders and the call_tool router.                              *)
(*                                                                         *)
(* Python dicts are modelled as ordered dicts: sequences of <<key, value>> *)
(* pairs with distinct keys, in insertion order.  Python strings are TLA+  *)
(* strings and f-strings are concatenations (\o).  JSON bodies sent to the *)
(* provider are TLA+ functions from keys to values.                        *)
(***************************************************************************)
EXTENDS Integers, Sequences, FiniteSets, TLC

VARIABLES
    env_ok,          \* EQUINIX_CLIENT_ID and EQUINIX_CLIENT_SECRET are both set
    equinix_client,  \* the module global: "None" or "client"
    access_token,    \* EquinixClient.access_token ("None" before the first fetch)
    token_expiry,    \* EquinixClient.token_expiry
    now,             \* time.time()
    ticks,           \* number of clock advances so far
    inv,             \* the call_tool invocations, one record per slot
    fn_input,        \* payload-builder harness: the input of the builder
    fn_output        \* payload-builder harness: what the builder returned or raised

vars == <<env_ok, equinix_client, access_token, token_expiry, now, ticks, inv,
          fn_input, fn_output>>

clientVars == <<env_ok, equinix_client, access_token, token_expiry, now, ticks, inv>>

-----------------------------------------------------------------------------
(* Ordered dicts *)

Has(d, k) == \E i \in 1..Len(d) : d[i][1] = k

Get(d, k) == d[CHOOSE i \in 1..Len(d) : d[i][1] = k][2]

GetOr(d, k, default) == IF Has(d, k) THEN Get(d, k) ELSE default

Keys(d) == {d[i][1] : i \in 1..Len(d)}

KeySeq(d) == [i \in 1..Len(d) |-> d[i][1]]

PopKey(d, k) == SelectSeq(d, LAMBDA p : p[1] # k)

(* str(int) *)
Digit == <<"0", "1", "2", "3", "4", "5", "6", "7", "8", "9">>

RECURSIVE Str(_)
Str(n) == IF n < 10 THEN Digit[n + 1] ELSE Str(n \div 10) \o Digit[(n % 10) + 1]

(* What a Python call does: return a value or raise an exception. *)
Return(v) == [ok |-> TRUE, val |-> v]

\* an exception: its class, str(e) and, for httpx.HTTPStatusError, the response
Exception(type, msg) == [type |-> type, msg |-> msg, status |-> 0, text |-> ""]

Raise(type, msg) == [ok |-> FALSE, exc |-> Exception(type, msg)]

\* str(KeyError(k)) is the repr of the key
KeyError(k) == Raise("KeyError", "'" \o k \o "'")

-----------------------------------------------------------------------------
(* Payload builders *)

\* a port branch that never looks at the vlan
PortAccessPointUntagged(side) ==
    IF ~Has(side, "port_uuid") THEN KeyError("port_uuid")
    ELSE Return(("type" :> "COLO")
             @@ ("port" :> [uuid |-> Get(side, "port_uuid")])
             @@ ("linkProtocol" :> [type |-> "UNTAGGED"]))

\* _build_access_point, `side["type"] == "port"` branch
PortAccessPoint(side) ==
    IF ~Has(side, "port_uuid") THEN KeyError("port_uuid")
    ELSE Return(("type" :> "COLO")
             @@ ("port" :> [uuid |-> Get(side, "port_uuid")])
             @@ ("linkProtocol" :>
                   IF Has(side, "vlan")
                   THEN [type |-> "DOT1Q", vlanTag |-> Get(side, "vlan")]
                   ELSE [type |-> "UNTAGGED"]))

\* _build_access_point, "virtual_device" branch
VirtualDeviceAccessPoint(side) ==
    IF ~Has(side, "virtual_device_uuid") THEN KeyError("virtual_device_uuid")
    ELSE Return(("type" :> "VD")
             @@ ("virtualDevice" :> [uuid |-> Get(side, "virtual_device_uuid")])
             @@ (IF Has(side, "vlan")
                 THEN ("interface" :> [type |-> "NETWORK", vlanTag |-> Get(side, "vlan")])
                 ELSE <<>>))

\* a service_token branch that also runs the metro-code lines of the
\* service_profile branch
ServiceTokenAccessPointWithLocation(side) ==
    IF ~Has(side, "service_token_uuid") THEN KeyError("service_token_uuid")
    ELSE Return(("type" :> "SERVICE_TOKEN")
             @@ ("serviceToken" :> [uuid |-> Get(side, "service_token_uuid")])
             @@ (IF Has(side, "seller_metro_code")
                 THEN ("location" :> [metroCode |-> Get(side, "seller_metro_code")])
                 ELSE <<>>))

\* _build_access_point, "service_token" branch
ServiceTokenAccessPoint(side) ==
    IF ~Has(side, "service_token_uuid") THEN KeyError("service_token_uuid")
    ELSE Return(("type" :> "SERVICE_TOKEN")
             @@ ("serviceToken" :> [uuid |-> Get(side, "service_token_uuid")]))

\* _build_access_point, "service_profile" branch
ServiceProfileAccessPoint(side) ==
    IF ~Has(side, "service_profile_uuid") THEN KeyError("service_profile_uuid")
    ELSE Return(("type" :> "SP")
             @@ ("profile" :> [uuid |-> Get(side, "service_profile_uuid"),
                               type |-> "L2_PROFILE"])
             @@ (IF Has(side, "seller_metro_code")
                 THEN ("location" :> [metroCode |-> Get(side, "seller_metro_code")])
                 ELSE <<>>))

\* a builder that rejects a type it does not know
BuildAccessPointRejecting(side) ==
    IF ~Has(side, "type") THEN KeyError("type")
    ELSE LET t == Get(side, "type") IN
      CASE t = "port" -> PortAccessPoint(side)
        [] t = "virtual_device" -> VirtualDeviceAccessPoint(side)
        [] t = "service_token" -> ServiceTokenAccessPoint(side)
        [] t = "service_profile" -> ServiceProfileAccessPoint(side)
        [] OTHER -> KeyError("type")

\* EquinixClient._build_access_point
_build_access_point(side) ==
    IF ~Has(side, "type") THEN KeyError("type")
    ELSE LET t == Get(side, "type") IN
      CASE t = "port" -> PortAccessPoint(side)
        [] t = "virtual_device" -> VirtualDeviceAccessPoint(side)
        [] t = "service_token" -> ServiceTokenAccessPoint(side)
        [] t = "service_profile" -> ServiceProfileAccessPoint(side)
        [] OTHER -> Return(<<>>)

\* the list-of-one-object wrapper used for notification e-mails
Notifications(emails) == <<[type |-> "ALL", emails |-> emails]>>

\* optional members where an absent description leaves a null behind
OptionalMembersWithNull(data) ==
       ("description" :> GetOr(data, "description", "None"))
    @@ (IF Has(data, "notifications")
        THEN ("notifications" :> Notifications(Get(data, "notifications")))
        ELSE <<>>)
    @@ (IF Has(data, "redundancy")
        THEN ("redundancy" :> Get(data, "redundancy")) ELSE <<>>)
    @@ (IF Has(data, "project_id")
        THEN ("project" :> [projectId |-> Get(data, "project_id")])
        ELSE <<>>)

\* _build_connection_payload, the four `if ... in data` statements
OptionalMembers(data) ==
       (IF Has(data, "description")
        THEN ("description" :> Get(data, "description")) ELSE <<>>)
    @@ (IF Has(data, "notifications")
        THEN ("notifications" :> Notifications(Get(data, "notifications")))
        ELSE <<>>)
    @@ (IF Has(data, "redundancy")
        THEN ("redundancy" :> Get(data, "redundancy")) ELSE <<>>)
    @@ (IF Has(data, "project_id")
        THEN ("project" :> [projectId |-> Get(data, "project_id")])
        ELSE <<>>)

\* EquinixClient._build_connection_payload
_build_connection_payload(data) ==
    IF ~Has(data, "type") THEN KeyError("type")
    ELSE IF ~Has(data, "name") THEN KeyError("name")
    ELSE IF ~Has(data, "bandwidth") THEN KeyError("bandwidth")
    ELSE IF ~Has(data, "a_side") THEN KeyError("a_side")
    ELSE LET a == _build_access_point(Get(data, "a_side")) IN
      IF ~a.ok THEN a
      ELSE IF ~Has(data, "z_side") THEN KeyError("z_side")
      ELSE LET z == _build_access_point(Get(data, "z_side")) IN
        IF ~z.ok THEN z
        ELSE Return(("type" :> Get(data, "type"))
                 @@ ("name" :> Get(data, "name"))
                 @@ ("bandwidth" :> Get(data, "bandwidth"))
                 @@ ("aSide" :> [accessPoint |-> a.val])
                 @@ ("zSide" :> [accessPoint |-> z.val])
                 @@ OptionalMembers(data))

\* one entry of the JSON patch built by update_connection
PatchOp(path, value) == [op |-> "replace", path |-> path, value |-> value]

\* a patch that follows the order of the caller's fields
UpdatePatchInInputOrder(update_data) ==
    LET fields == SelectSeq(update_data,
                    LAMBDA p : p[1] \in {"name", "description", "bandwidth",
                                         "notifications"})
    IN [i \in 1..Len(fields) |->
          PatchOp("/" \o fields[i][1],
                  IF fields[i][1] = "notifications" THEN Notifications(fields[i][2])
                  ELSE fields[i][2])]

\* EquinixClient.update_connection: the PATCH body
UpdatePatch(update_data) ==
       (IF Has(update_data, "name")
        THEN <<PatchOp("/name", Get(update_data, "name"))>> ELSE <<>>)
    \o (IF Has(update_data, "description")
        THEN <<PatchOp("/description", Get(update_data, "description"))>> ELSE <<>>)
    \o (IF Has(update_data, "bandwidth")
        THEN <<PatchOp("/bandwidth", Get(update_data, "bandwidth"))>> ELSE <<>>)
    \o (IF Has(update_data, "notifications")
        THEN <<PatchOp("/notifications",
                       Notifications(Get(update_data, "notifications")))>>
        ELSE <<>>)

\* EquinixClient.create_service_token: the POST body
ServiceTokenPayload(token_data) ==
    IF ~Has(token_data, "type") THEN KeyError("type")
    ELSE IF ~Has(token_data, "name") THEN KeyError("name")
    ELSE IF ~Has(token_data, "expiration_date") THEN KeyError("expiration_date")
    ELSE LET base == ("type" :> Get(token_data, "type"))
                  @@ ("name" :> Get(token_data, "name"))
                  @@ ("expirationDateTime" :> Get(token_data, "expiration_date"))
                  @@ (IF Has(token_data, "description")
                      THEN ("description" :> Get(token_data, "description"))
                      ELSE <<>>)
                  @@ (IF Has(token_data, "notifications")
                      THEN ("notifications" :>
                              Notifications(Get(token_data, "notifications")))
                      ELSE <<>>)
         IN
      IF ~Has(token_data, "service_token_connection") THEN Return(base)
      ELSE LET stc == Get(token_data, "service_token_connection") IN
        IF ~Has(stc, "type") THEN KeyError("type")
        ELSE LET conn == ("type" :> Get(stc, "type"))
                      @@ (IF Has(stc, "supported_bandwidths")
                          THEN ("supportedBandwidths" :>
                                  Get(stc, "supported_bandwidths"))
                          ELSE <<>>)
             IN
          IF ~Has(stc, "a_side")
          THEN Return(base @@ ("serviceTokenConnection" :> conn))
          ELSE LET a == _build_access_point(Get(stc, "a_side")) IN
            IF ~a.ok THEN a
            ELSE Return(base @@ ("serviceTokenConnection" :>
                                   (conn @@ ("aSide" :> [accessPoint |-> a.val]))))

-----------------------------------------------------------------------------
(* Program constants *)

DefaultExpiresIn == 3600

ExpiryMargin == 60

DefaultOffset == 0

DefaultLimit == 20

API_PREFIX == "/fabric/v4"

ToolNames ==
    {"list_fabric_ports", "get_fabric_port", "list_fabric_connections",
     "get_fabric_connection", "get_connection_stats", "list_fabric_routers",
     "get_fabric_router", "search_connections", "list_metros",
     "create_fabric_connection", "update_connection", "delete_connection",
     "validate_connection_config", "create_fabric_router", "update_fabric_router",
     "delete_fabric_router", "list_service_profiles", "get_service_profile",
     "create_service_token", "list_service_tokens", "get_service_token",
     "delete_service_token"}

StatsNotSupported ==
    "get_connection_stats is not supported: Fabric v4 does not provide "
    \o "/connections/{uuid}/stats. Use get_fabric_connection or search endpoints."

RoutersNotSupported ==
    "Cloud Routers are not available in Fabric v4 API. "
    \o "Use Fabric connections and service profiles instead."

-----------------------------------------------------------------------------
(* The dispatch chain of call_tool up to the first network call: what the    *)
(* selected branch does with (name, arguments) before make_request is        *)
(* reached.  A plan is the request to send, the exception raised before any  *)
(* request, or the unknown-tool exit; it carries the arguments mapping as    *)
(* the branch leaves it.                                                     *)

NoException == Exception("", "")

Request(method, path, body, arguments) ==
    [kind |-> "request", method |-> method, path |-> path, body |-> body,
     exc |-> NoException, arguments |-> arguments]

Fail(raised, arguments) ==
    [kind |-> "raise", method |-> "", path |-> "", body |-> <<>>,
     exc |-> raised.exc, arguments |-> arguments]

\* a chain whose last branch lists the metros instead of rejecting the name
UnknownAsMetros(arguments) ==
    [kind |-> "request", method |-> "GET", path |-> "/fabric/v4/metros", body |-> <<>>,
     exc |-> NoException, arguments |-> arguments]

Unknown(arguments) ==
    [kind |-> "unknown", method |-> "", path |-> "", body |-> <<>>,
     exc |-> NoException, arguments |-> arguments]

\* offset=arguments.get("offset", 0), limit=arguments.get("limit", 20)
Paging(arguments) ==
    "offset=" \o Str(GetOr(arguments, "offset", DefaultOffset))
    \o "&limit=" \o Str(GetOr(arguments, "limit", DefaultLimit))

\* list_connections / list_routers: the search body
ListSearchBody(arguments) ==
    [filter |-> <<>>,
     pagination |-> [offset |-> GetOr(arguments, "offset", DefaultOffset),
                     limit |-> GetOr(arguments, "limit", DefaultLimit)]]

\* get_router: the search body
RouterSearchBody(router_id) ==
    [filter |-> [property |-> "/uuid", operator |-> "=", values |-> <<router_id>>],
     pagination |-> [offset |-> 0, limit |-> 1]]

\* call_tool, search_connections branch: the query it builds
SearchQuery(arguments) ==
    [filter |->
         (IF Has(arguments, "name") THEN ("name" :> Get(arguments, "name")) ELSE <<>>)
      @@ (IF Has(arguments, "state") THEN ("state" :> Get(arguments, "state")) ELSE <<>>),
     pagination |->
         (IF Has(arguments, "offset")
          THEN ("offset" :> Get(arguments, "offset")) ELSE <<>>)
      @@ (IF Has(arguments, "limit")
          THEN ("limit" :> Get(arguments, "limit")) ELSE <<>>)]

\* list_service_profiles: the query string
ProfileParams(arguments) ==
    Paging(arguments)
    \o (IF Has(arguments, "metro_code") /\ Get(arguments, "metro_code") # ""
        THEN "&filter[metroCode]=" \o Get(arguments, "metro_code") ELSE "")
    \o (IF Has(arguments, "service_type") /\ Get(arguments, "service_type") # ""
        THEN "&filter[type]=" \o Get(arguments, "service_type") ELSE "")
    \o (IF Has(arguments, "name") /\ Get(arguments, "name") # ""
        THEN "&filter[name]=" \o Get(arguments, "name") ELSE "")

\* a by-id branch that addresses the collection instead of the resource
ByIdOfCollection(arguments, key, method, collection) ==
    IF ~Has(arguments, key) THEN Fail(KeyError(key), arguments)
    ELSE Request(method, API_PREFIX \o collection, <<>>, arguments)

\* a branch of the form op(arguments[key]) issuing method path/{id}
ById(arguments, key, method, collection) ==
    IF ~Has(arguments, key) THEN Fail(KeyError(key), arguments)
    ELSE Request(method, API_PREFIX \o collection \o "/" \o Get(arguments, key),
                 <<>>, arguments)

\* a branch whose request body comes from a payload builder
Built(payload, method, path, arguments) ==
    IF ~payload.ok THEN Fail(payload, arguments)
    ELSE Request(method, API_PREFIX \o path, <<payload.val>>, arguments)

Dispatch(name, arguments) ==
    CASE name = "list_fabric_ports" ->
           Request("GET", API_PREFIX \o "/ports?" \o Paging(arguments), <<>>, arguments)
      [] name = "get_fabric_port" -> ById(arguments, "port_id", "GET", "/ports")
      [] name = "list_fabric_connections" ->
           Request("POST", API_PREFIX \o "/connections/search",
                   <<ListSearchBody(arguments)>>, arguments)
      [] name = "get_fabric_connection" ->
           ById(arguments, "connection_id", "GET", "/connections")
      [] name = "get_connection_stats" ->
           Fail(Raise("NotImplementedError", StatsNotSupported), arguments)
      [] name = "list_fabric_routers" ->
           Request("POST", API_PREFIX \o "/routers/search",
                   <<ListSearchBody(arguments)>>, arguments)
      [] name = "get_fabric_router" ->
           IF ~Has(arguments, "router_id") THEN Fail(KeyError("router_id"), arguments)
           ELSE Request("POST", API_PREFIX \o "/routers/search",
                        <<RouterSearchBody(Get(arguments, "router_id"))>>, arguments)
      [] name = "search_connections" ->
           Request("POST", API_PREFIX \o "/connections/search",
                   <<SearchQuery(arguments)>>, arguments)
      [] name = "list_metros" -> Request("GET", API_PREFIX \o "/metros", <<>>, arguments)
      [] name = "create_fabric_connection" ->
           Built(_build_connection_payload(arguments), "POST", "/connections", arguments)
      [] name = "update_connection" ->
           IF ~Has(arguments, "connection_uuid")
           THEN Fail(KeyError("connection_uuid"), arguments)
           ELSE LET update_data == PopKey(arguments, "connection_uuid") IN
                Request("PATCH",
                        API_PREFIX \o "/connections/" \o Get(arguments, "connection_uuid"),
                        <<UpdatePatch(update_data)>>, update_data)
      [] name = "delete_connection" ->
           ById(arguments, "connection_uuid", "DELETE", "/connections")
      [] name = "validate_connection_config" ->
           IF ~Has(arguments, "connection_config")
           THEN Fail(KeyError("connection_config"), arguments)
           ELSE Built(_build_connection_payload(Get(arguments, "connection_config")),
                      "POST", "/connections/validate", arguments)
      [] name = "create_fabric_router" ->
           Fail(Raise("NotImplementedError", RoutersNotSupported), arguments)
      [] name = "update_fabric_router" ->
           IF ~Has(arguments, "router_uuid")
           THEN Fail(KeyError("router_uuid"), arguments)
           ELSE Fail(Raise("NotImplementedError", RoutersNotSupported),
                     PopKey(arguments, "router_uuid"))
      [] name = "delete_fabric_router" ->
           IF ~Has(arguments, "router_uuid")
           THEN Fail(KeyError("router_uuid"), arguments)
           ELSE Fail(Raise("NotImplementedError", RoutersNotSupported), arguments)
      [] name = "list_service_profiles" ->
           Request("GET", API_PREFIX \o "/serviceProfiles?" \o ProfileParams(arguments),
                   <<>>, arguments)
      [] name = "get_service_profile" ->
           ById(arguments, "profile_uuid", "GET", "/serviceProfiles")
      [] name = "create_service_token" ->
           Built(ServiceTokenPayload(arguments), "POST", "/serviceTokens", arguments)
      [] name = "list_service_tokens" ->
           Request("GET", API_PREFIX \o "/serviceTokens?" \o Paging(arguments),
                   <<>>, arguments)
      [] name = "get_service_token" ->
           ById(arguments, "token_uuid", "GET", "/serviceTokens")
      [] name = "delete_service_token" ->
           ById(arguments, "token_uuid", "DELETE", "/serviceTokens")
      [] OTHER -> Unknown(arguments)

-----------------------------------------------------------------------------
(* The provider as the environment: HTTP responses and transport failures.   *)
(* A response carries its status, its raw text and what response.json()      *)
(* makes of the text.                                                        *)

NoJson == [valid |-> FALSE, hasData |-> FALSE, data |-> <<>>]

\* a JSON object, with its "data" list when it has one
Json(hasData, data) == [valid |-> TRUE, hasData |-> hasData, data |-> data]

Response(status, text, json) ==
    [kind |-> "response", status |-> status, text |-> text, json |-> json]

TransportFailure ==
    [kind |-> "transport", status |-> 0, text |-> "", json |-> NoJson]

\* answers to a resource request
ResourceResponses ==
    { Response(200, "{}", Json(FALSE, <<>>)),
      Response(200, "{\"data\": []}", Json(TRUE, <<>>)),
      Response(200, "{\"data\": [{\"uuid\": \"r2\"}, {\"uuid\": \"r1\"}]}",
               Json(TRUE, <<"r2", "r1">>)),
      Response(204, "", NoJson),
      Response(401, "unauthorized", NoJson),
      Response(404, "{\"errorCode\": \"EQ-404\"}", Json(FALSE, <<>>)),
      Response(500, "oops", NoJson),
      TransportFailure }

Tokens == {"", "t1", "t2"}

\* the expires_in member of a token response: absent, a number, or not a number
NoExpiresIn == [present |-> FALSE, numeric |-> TRUE, value |-> 0]

ExpiresIn(n) == [present |-> TRUE, numeric |-> TRUE, value |-> n]

BadExpiresIn == [present |-> TRUE, numeric |-> FALSE, value |-> 0]

ExpiresIns == {NoExpiresIn, ExpiresIn(30), ExpiresIn(120), BadExpiresIn}

TokenResponse(status, text, valid, hasToken, token, expires_in) ==
    [kind |-> "response", status |-> status, text |-> text, valid |-> valid,
     hasToken |-> hasToken, token |-> token, expires_in |-> expires_in]

\* answers to a token request
TokenResponses ==
    { TokenResponse(200, "granted", TRUE, TRUE, t, e) : t \in Tokens, e \in ExpiresIns }
    \cup { TokenResponse(200, "{}", TRUE, FALSE, "", NoExpiresIn),
           TokenResponse(200, "", FALSE, FALSE, "", NoExpiresIn),
           TokenResponse(401, "denied", FALSE, FALSE, "", NoExpiresIn),
           [TokenResponse(0, "", FALSE, FALSE, "", NoExpiresIn)
              EXCEPT !.kind = "transport"] }

\* response.raise_for_status()
IsSuccess(status) == 200 <= status /\ status <= 299

HTTPStatusError(r) ==
    [type |-> "HTTPStatusError", msg |-> "HTTP status " \o Str(r.status),
     status |-> r.status, text |-> r.text]

TransportError == Exception("ConnectError", "All connection attempts failed")

JSONDecodeError ==
    Exception("JSONDecodeError", "Expecting value: line 1 column 1 (char 0)")

-----------------------------------------------------------------------------
(* Rendering *)

\* json.dumps(item, indent=2) of one element of a data list, at an indentation
DumpsItemAt(uuid, pad) == "{\n" \o pad \o "  \"uuid\": \"" \o uuid \o "\"\n" \o pad \o "}"

DumpsItem(uuid) == DumpsItemAt(uuid, "")

RECURSIVE DumpsItems(_)
DumpsItems(data) ==
    IF Len(data) = 1 THEN "    " \o DumpsItemAt(data[1], "    ")
    ELSE "    " \o DumpsItemAt(data[1], "    ") \o ",\n" \o DumpsItems(Tail(data))

\* json.dumps(result, indent=2) of a response object
Dumps(json) ==
    IF ~json.hasData THEN "{}"
    ELSE IF json.data = <<>> THEN "{\n  \"data\": []\n}"
    ELSE "{\n  \"data\": [\n" \o DumpsItems(json.data) \o "\n  ]\n}"

\* except handlers without the HTTPStatusError clause
ErrorTextOfStr(name, e) == "Error calling " \o name \o ": " \o e.msg

\* the except handlers of call_tool
ErrorText(name, e) ==
    IF e.type = "HTTPStatusError"
    THEN "Error calling " \o name \o ": "
           \o ("HTTP Error " \o Str(e.status) \o ": " \o e.text)
    ELSE "Error calling " \o name \o ": " \o e.msg

UnknownText(name) == "Unknown tool: " \o name

-----------------------------------------------------------------------------
(* Inputs: the (name, arguments) pairs the transport delivers *)

UnknownNames == {"list_ports", "List_Metros", ""}

Names == ToolNames \cup UnknownNames

\* d with the value of key k replaced by v
SetKey(d, k, v) == [i \in 1..Len(d) |-> IF d[i][1] = k THEN <<k, v>> ELSE d[i]]

PortSide == << <<"type", "port">>, <<"port_uuid", "p1">>, <<"vlan", 100>> >>

ProfileSide ==
    << <<"type", "service_profile">>, <<"service_profile_uuid", "sp1">>,
       <<"seller_metro_code", "NY">> >>

ConnectionData ==
    << <<"name", "X">>, <<"type", "EVPL_VC">>, <<"bandwidth", 50>>,
       <<"a_side", PortSide>>, <<"z_side", ProfileSide>> >>

ConnectionDatas ==
    { ConnectionData,
      ConnectionData \o << <<"description", "d">>, <<"project_id", "pr1">> >>,
      PopKey(ConnectionData, "bandwidth"),
      PopKey(ConnectionData, "z_side"),
      SetKey(ConnectionData, "a_side", PopKey(PortSide, "type")),
      SetKey(ConnectionData, "z_side", PopKey(ProfileSide, "service_profile_uuid")),
      SetKey(ConnectionData, "a_side", << <<"type", "cloud">> >>),
      SetKey(ConnectionData, "z_side", << <<"type", "cloud">>, <<"port_uuid", "p1">> >>),
      SetKey(ConnectionData, "z_side", << <<"service_profile_uuid", "sp1">> >>),
      <<>> }

TokenData ==
    << <<"type", "VC_TOKEN">>, <<"name", "tok">>, <<"expiration_date", "2030-01-01">> >>

TokenDatas ==
    { TokenData,
      PopKey(TokenData, "expiration_date"),
      TokenData \o << <<"service_token_connection",
                        << <<"type", "EVPL_VC">>, <<"a_side", PortSide>> >> >> >>,
      TokenData \o << <<"service_token_connection",
                        << <<"a_side", PortSide>> >> >> >>,
      TokenData \o << <<"service_token_connection",
                        << <<"type", "EVPL_VC">>,
                           <<"a_side", PopKey(PortSide, "port_uuid")>> >> >> >> }

PagingArgs == { <<>>, << <<"limit", 5>> >>, << <<"offset", 40>>, <<"limit", 5>> >> }

IdArgs(key) == { <<>>, << <<key, "id1">> >>, << <<key, "id2">> >> }

ArgsFor(name) ==
    CASE name \in {"list_fabric_ports", "list_fabric_connections", "list_fabric_routers",
                   "list_service_tokens"} -> PagingArgs
      [] name = "search_connections" ->
           PagingArgs \cup { << <<"state", "ACTIVE">>, <<"offset", 40>>, <<"name", "X">> >> }
      [] name = "list_service_profiles" ->
           PagingArgs \cup { << <<"metro_code", "NY">>, <<"name", "">>, <<"limit", 5>> >> }
      [] name = "get_fabric_port" -> IdArgs("port_id")
      [] name = "get_fabric_connection" -> IdArgs("connection_id")
      [] name = "get_fabric_router" -> IdArgs("router_id")
      [] name = "delete_connection" -> IdArgs("connection_uuid")
      [] name \in {"delete_fabric_router", "update_fabric_router"} ->
           IdArgs("router_uuid") \cup { << <<"name", "a">>, <<"router_uuid", "id1">> >> }
      [] name = "get_service_profile" -> IdArgs("profile_uuid")
      [] name \in {"get_service_token", "delete_service_token"} -> IdArgs("token_uuid")
      [] name = "create_fabric_connection" -> ConnectionDatas
      [] name = "validate_connection_config" ->
           { <<>>, << <<"connection_config", ConnectionData>> >>,
             << <<"connection_config", PopKey(ConnectionData, "name")>> >>,
             << <<"connection_config",
                  SetKey(ConnectionData, "a_side", << <<"type", "cloud">> >>)>> >>,
             << <<"connection_config",
                  SetKey(ConnectionData, "a_side", PopKey(PortSide, "type"))>> >> }
      [] name = "update_connection" ->
           { <<>>,
             << <<"name", "a">>, <<"bandwidth", 100>> >>,
             << <<"connection_uuid", "id1">> >>,
             << <<"connection_uuid", "id1">>, <<"name", "a">>, <<"bandwidth", 100>> >>,
             << <<"bandwidth", 100>>, <<"state", "x">>, <<"connection_uuid", "id1">>,
                <<"notifications", <<"a@b.c">> >>, <<"name", "a">> >> }
      [] name = "create_service_token" -> TokenDatas
      [] OTHER -> { <<>>, << <<"name", "a">> >> }

-----------------------------------------------------------------------------
(* State *)

\* no HTTP reply received yet
NoReply == [kind |-> "none", status |-> 0, text |-> "", json |-> NoJson]

\* an invocation slot no call_tool is running in
Idle ==
    [pc |-> "idle", name |-> "", passed |-> <<>>, arguments |-> <<>>,
     method |-> "", path |-> "", body |-> <<>>, bearer |-> "",
     nTok |-> 0, nRes |-> 0, reply |-> NoReply, expires_in |-> NoExpiresIn,
     result |-> "", exc |-> NoException]

NoInput == <<>>

InitClient(slots) ==
    /\ env_ok \in BOOLEAN
    /\ equinix_client = "None"
    /\ access_token = "None"
    /\ token_expiry = 0
    /\ now = 0
    /\ ticks = 0
    /\ inv = [i \in slots |-> Idle]

\* a cache test that forgets the expiry
CacheValidWithoutExpiry == access_token \notin {"None", ""}

\* `if self.access_token and time.time() < self.token_expiry`
CacheValid == access_token \notin {"None", ""} /\ now < token_expiry

\* a resource request that leaves the token out of its header
SendWithoutToken(c, token) ==
    [c EXCEPT !.pc = "res_wait", !.bearer = "Bearer ", !.nRes = @ + 1]

\* make_request once it holds the token: the resource request goes out
Send(c, token) ==
    [c EXCEPT !.pc = "res_wait", !.bearer = "Bearer " \o token, !.nRes = @ + 1]

\* call_tool returns a text result
Finish(c, text) == [c EXCEPT !.pc = "done", !.result = text]

\* call_tool catches e and returns the error text
\* a handler that sends a failed resource request once more
CaughtAndRetried(c, e) ==
    IF c.pc = "res_wait" /\ c.nRes < 2
    THEN [c EXCEPT !.nRes = @ + 1]
    ELSE [c EXCEPT !.pc = "done", !.exc = e, !.result = ErrorText(c.name, e)]

Caught(c, e) == [c EXCEPT !.pc = "done", !.exc = e, !.result = ErrorText(c.name, e)]

\* call_tool raises
Propagate(c, e) == [c EXCEPT !.pc = "raised", !.exc = e]

ConfigError ==
    Exception("ValueError",
              "EQUINIX_CLIENT_ID and EQUINIX_CLIENT_SECRET environment variables are required")

-----------------------------------------------------------------------------
(* Operations.  A step runs from one suspension point (an awaited HTTP call) *)
(* to the next: asyncio switches tasks only there.                           *)

\* get_access_token up to its await, then make_request if the cache answers
Authenticate(c) ==
    IF CacheValid
    THEN Send(c, access_token)
    ELSE [c EXCEPT !.pc = "token_wait", !.nTok = @ + 1]

\* call_tool(name, arguments) from its entry to its first suspension or its exit
CallTool(i, name, arguments) ==
    /\ inv[i].pc = "idle"
    /\ LET c == [Idle EXCEPT !.name = name, !.passed = arguments,
                             !.arguments = arguments]
       IN IF equinix_client = "None" /\ ~env_ok
          THEN \* init_client raises outside the try block
               /\ inv' = [inv EXCEPT ![i] = Propagate(c, ConfigError)]
               /\ UNCHANGED equinix_client
          ELSE LET plan == Dispatch(name, arguments)
                   d == [c EXCEPT !.arguments = plan.arguments]
               IN /\ equinix_client' = "client"
                  /\ inv' = [inv EXCEPT ![i] =
                       CASE plan.kind = "unknown" -> Finish(d, UnknownText(name))
                         [] plan.kind = "raise" -> Caught(d, plan.exc)
                         [] OTHER ->
                              Authenticate([d EXCEPT !.method = plan.method,
                                                     !.path = plan.path,
                                                     !.body = plan.body])]
    /\ UNCHANGED <<env_ok, access_token, token_expiry, now, ticks, fn_input, fn_output>>

\* an expiry that keeps the whole provider lifetime
StoredExpiryWithoutMargin(expires_in) ==
    now + (IF expires_in.present THEN expires_in.value ELSE DefaultExpiresIn)

\* time.time() + data.get("expires_in", 3600) - 60
StoredExpiry(expires_in) ==
    now + (IF expires_in.present THEN expires_in.value ELSE DefaultExpiresIn)
        - ExpiryMargin

\* get_access_token after its await: the token endpoint has answered
TokenReply(i, r) ==
    /\ inv[i].pc = "token_wait"
    /\ LET c == [inv[i] EXCEPT !.reply = [kind |-> r.kind, status |-> r.status,
                                          text |-> r.text, json |-> NoJson],
                                !.expires_in = r.expires_in]
           fail(e) == Caught(c, e)
       IN CASE r.kind = "transport" ->
                 /\ inv' = [inv EXCEPT ![i] = fail(TransportError)]
                 /\ UNCHANGED <<access_token, token_expiry>>
            [] r.kind # "transport" /\ ~IsSuccess(r.status) ->
                 /\ inv' = [inv EXCEPT ![i] = fail(HTTPStatusError(r))]
                 /\ UNCHANGED <<access_token, token_expiry>>
            [] r.kind # "transport" /\ IsSuccess(r.status) /\ ~r.valid ->
                 /\ inv' = [inv EXCEPT ![i] = fail(JSONDecodeError)]
                 /\ UNCHANGED <<access_token, token_expiry>>
            [] r.kind # "transport" /\ IsSuccess(r.status) /\ r.valid /\ ~r.hasToken ->
                 /\ inv' = [inv EXCEPT ![i] = fail(KeyError("access_token").exc)]
                 /\ UNCHANGED <<access_token, token_expiry>>
            [] OTHER ->
                 /\ access_token' = r.token
                 /\ IF r.expires_in.numeric
                    THEN /\ token_expiry' = StoredExpiry(r.expires_in)
                         /\ inv' = [inv EXCEPT ![i] = Send(c, r.token)]
                    ELSE \* time.time() + <not a number> raises after the token is stored
                         /\ UNCHANGED token_expiry
                         /\ inv' = [inv EXCEPT ![i] =
                              fail(Exception("TypeError",
                                     "unsupported operand type(s) for +: 'float' and 'str'"))]
    /\ UNCHANGED <<env_ok, equinix_client, now, ticks, fn_input, fn_output>>

\* a get_router that hands back the search result when nothing matched
RouterResultOrEmpty(c, json) ==
    IF json.hasData /\ Len(json.data) > 0
    THEN Finish(c, DumpsItem(json.data[1]))
    ELSE Finish(c, Dumps(json))

\* get_router: the first element of the data list, or not found
RouterResult(c, json) ==
    IF json.hasData /\ Len(json.data) > 0
    THEN Finish(c, DumpsItem(json.data[1]))
    ELSE Caught(c, Exception("ValueError",
                             "Cloud Router with ID " \o Get(c.arguments, "router_id")
                               \o " not found"))

\* a make_request that drops the cached token when the resource request fails
ResourceReplyInvalidating(i, r) ==
    /\ inv[i].pc = "res_wait"
    /\ LET c == [inv[i] EXCEPT !.reply = r]
           failed == r.kind = "transport" \/ ~IsSuccess(r.status)
       IN /\ inv' = [inv EXCEPT ![i] =
               CASE r.kind = "transport" -> Caught(c, TransportError)
                 [] r.kind # "transport" /\ ~IsSuccess(r.status) ->
                      Caught(c, HTTPStatusError(r))
                 [] r.kind # "transport" /\ IsSuccess(r.status) /\ ~r.json.valid ->
                      Caught(c, JSONDecodeError)
                 [] OTHER ->
                      IF c.name = "get_fabric_router" THEN RouterResult(c, r.json)
                      ELSE Finish(c, Dumps(r.json))]
          /\ access_token' = IF failed THEN "None" ELSE access_token
          /\ token_expiry' = IF failed THEN 0 ELSE token_expiry
    /\ UNCHANGED <<env_ok, equinix_client, now, ticks, fn_input, fn_output>>

\* make_request after its await, back through the operation to call_tool's exit
ResourceReply(i, r) ==
    /\ inv[i].pc = "res_wait"
    /\ LET c == [inv[i] EXCEPT !.reply = r]
           fail(e) == Caught(c, e)
       IN inv' = [inv EXCEPT ![i] =
            CASE r.kind = "transport" -> fail(TransportError)
              [] r.kind # "transport" /\ ~IsSuccess(r.status) -> fail(HTTPStatusError(r))
              [] r.kind # "transport" /\ IsSuccess(r.status) /\ ~r.json.valid ->
                   fail(JSONDecodeError)
              [] OTHER ->
                   IF c.name = "get_fabric_router" THEN RouterResult(c, r.json)
                   ELSE Finish(c, Dumps(r.json))]
    /\ UNCHANGED <<env_ok, equinix_client, access_token, token_expiry, now, ticks,
                   fn_input, fn_output>>

\* the transport takes the outcome of a finished invocation; its slot is free again
Deliver(i) ==
    /\ inv[i].pc \in {"done", "raised"}
    /\ inv' = [inv EXCEPT ![i] = Idle]
    /\ UNCHANGED <<env_ok, equinix_client, access_token, token_expiry, now, ticks,
                   fn_input, fn_output>>

MaxTicks == 2

TickSteps == {60, 3540}

\* time passes
Advance(bound) ==
    /\ ticks < bound
    /\ \E d \in TickSteps : now' = now + d
    /\ ticks' = ticks + 1
    /\ UNCHANGED <<env_ok, equinix_client, access_token, token_expiry, inv,
                   fn_input, fn_output>>

-----------------------------------------------------------------------------
(* Spec: one invocation at a time, every tool name *)

Tick == Advance(MaxTicks)

Init ==
    /\ InitClient({1})
    /\ fn_input = NoInput
    /\ fn_output = NoInput

Call == \E name \in Names : \E arguments \in ArgsFor(name) : CallTool(1, name, arguments)

TokenAnswer == \E r \in TokenResponses : TokenReply(1, r)

ResourceAnswer == \E r \in ResourceResponses : ResourceReply(1, r)

Returned == Deliver(1)

Next == Call \/ TokenAnswer \/ ResourceAnswer \/ Returned \/ Tick

Spec == Init /\ [][Next]_vars

-----------------------------------------------------------------------------
(* SpecConc: invocations that share the client and overlap at their awaits *)

NInv == 2

ConcNames == {"list_metros", "get_fabric_router"}

ConcTokenResponses ==
    { r \in TokenResponses :
        r.kind = "response" /\ (r.hasToken => r.token # "" /\ r.expires_in \in
                                   {NoExpiresIn, BadExpiresIn}) }

InitConc ==
    /\ InitClient(1..NInv)
    /\ fn_input = NoInput
    /\ fn_output = NoInput

ConcResourceResponses ==
    { r \in ResourceResponses : r.kind = "response" /\ r.status \in {200, 404} /\ r.json.valid }

ConcCall ==
    \E i \in 1..NInv : \E name \in ConcNames :
        CallTool(i, name, << <<"router_id", "id1">> >>)

ConcTokenAnswer == \E i \in 1..NInv : \E r \in ConcTokenResponses : TokenReply(i, r)

ConcResourceAnswer == \E i \in 1..NInv : \E r \in ConcResourceResponses : ResourceReply(i, r)

ConcReturned == \E i \in 1..NInv : Deliver(i)

MaxConcTicks == 1

ConcTick == Advance(MaxConcTicks)

NextConc == ConcCall \/ ConcTokenAnswer \/ ConcResourceAnswer \/ ConcReturned \/ ConcTick

SpecConc == InitConc /\ [][NextConc]_vars

-----------------------------------------------------------------------------
(* SpecAP: _build_access_point on every descriptor *)

SideFields ==
    <<"port_uuid", "virtual_device_uuid", "service_token_uuid", "service_profile_uuid",
      "vlan", "seller_metro_code">>

SideValue(k) ==
    CASE k = "vlan" -> 100
      [] k = "seller_metro_code" -> "NY"
      [] k = "port_uuid" -> "p1"
      [] k = "service_profile_uuid" -> "sp1"
      [] OTHER -> "u-" \o k

SideTypes == {"port", "virtual_device", "service_token", "service_profile"}

\* the descriptor with the fields of S, and with type t unless t is ""
Side(t, S) ==
    LET fs == SelectSeq(SideFields, LAMBDA k : k \in S)
        rest == [i \in 1..Len(fs) |-> <<fs[i], SideValue(fs[i])>>]
    IN IF t = "" THEN rest ELSE << <<"type", t>> >> \o rest

Sides ==
    { Side(t, S) : t \in SideTypes \cup {"", "cloud"},
                   S \in SUBSET {SideFields[i] : i \in 1..Len(SideFields)} }

HarnessClient ==
    /\ env_ok = TRUE
    /\ equinix_client = "None"
    /\ access_token = "None"
    /\ token_expiry = 0
    /\ now = 0
    /\ ticks = 0
    /\ inv = [i \in {1} |-> Idle]

InitAP ==
    /\ HarnessClient
    /\ fn_input \in Sides
    /\ fn_output = <<>>

BuildAccessPoint ==
    /\ fn_output = <<>>
    /\ fn_output' = <<_build_access_point(fn_input)>>
    /\ UNCHANGED <<fn_input, clientVars>>

NextAP == BuildAccessPoint

SpecAP == InitAP /\ [][NextAP]_vars

-----------------------------------------------------------------------------
(* SpecPatch: the update_connection branch of call_tool on every ordering of  *)
(* every set of argument keys                                                *)

UpdateKeys ==
    {"connection_uuid", "name", "description", "bandwidth", "notifications", "state"}

UpdateValue(k) ==
    CASE k = "bandwidth" -> 100
      [] k = "notifications" -> <<"a@b.c">>
      [] k = "connection_uuid" -> "id1"
      [] OTHER -> "v-" \o k

\* the sequences of distinct keys
KeyOrders ==
    UNION { { s \in [1..n -> UpdateKeys] : \A i, j \in 1..n : i # j => s[i] # s[j] }
            : n \in 0..Cardinality(UpdateKeys) }

UpdateArgs == { [i \in 1..Len(s) |-> <<s[i], UpdateValue(s[i])>>] : s \in KeyOrders }

InitPatch ==
    /\ HarnessClient
    /\ fn_input \in UpdateArgs
    /\ fn_output = <<>>

BuildUpdate ==
    /\ fn_output = <<>>
    /\ fn_output' = <<Dispatch("update_connection", fn_input)>>
    /\ UNCHANGED <<fn_input, clientVars>>

NextPatch == BuildUpdate

SpecPatch == InitPatch /\ [][NextPatch]_vars

-----------------------------------------------------------------------------
(* SpecPayload: _build_connection_payload on connection requests: every      *)
(* descriptor as a_side, every set of optional fields, each required field   *)
(* missing                                                                   *)

OptionalFields == <<"description", "notifications", "redundancy", "project_id">>

OptionalValue(k) ==
    CASE k = "description" -> "d"
      [] k = "notifications" -> <<"a@b.c">>
      [] k = "redundancy" -> [priority |-> "PRIMARY"]
      [] k = "project_id" -> "pr1"

\* the optional fields of S, as the tail of a request
Optionals(S) ==
    LET fs == SelectSeq(OptionalFields, LAMBDA k : k \in S)
    IN [i \in 1..Len(fs) |-> <<fs[i], OptionalValue(fs[i])>>]

ZSides == { ProfileSide, PopKey(ProfileSide, "seller_metro_code") }

ConnectionRequests ==
    { SetKey(SetKey(ConnectionData, "a_side", a), "z_side", z) \o Optionals(S) :
        a \in Sides, z \in ZSides,
        S \in SUBSET {OptionalFields[i] : i \in 1..Len(OptionalFields)} }
    \cup { PopKey(ConnectionData, k) : k \in Keys(ConnectionData) }

InitPayload ==
    /\ HarnessClient
    /\ fn_input \in ConnectionRequests
    /\ fn_output = <<>>

BuildConnectionPayload ==
    /\ fn_output = <<>>
    /\ fn_output' = <<_build_connection_payload(fn_input)>>
    /\ UNCHANGED <<fn_input, clientVars>>

NextPayload == BuildConnectionPayload

SpecPayload == InitPayload /\ [][NextPayload]_vars

-----------------------------------------------------------------------------
(* Properties *)

Slots == DOMAIN inv

Running(i) == inv[i].pc # "idle"

\* C1 (Spec): token reuse.  When get_access_token is called while a non-empty
\* token is cached and the current time is before token_expiry, the call
\* returns the cached token and sends no token request; when it is called
\* with no token cached or at a time >= token_expiry, it sends exactly one
\* token request, and no later step of the invocation sends another.
TokenReuse ==
    [][\A i \in Slots :
         /\ (inv[i].pc = "idle" /\ inv'[i].pc \in {"token_wait", "res_wait"}) =>
              IF access_token \notin {"None", ""} /\ now < token_expiry
              THEN /\ inv'[i].pc = "res_wait"
                   /\ inv'[i].nTok = 0
                   /\ inv'[i].bearer = "Bearer " \o access_token
              ELSE /\ inv'[i].pc = "token_wait"
                   /\ inv'[i].nTok = 1
         /\ (inv[i].pc # "idle" /\ inv'[i].pc # "idle") => inv'[i].nTok = inv[i].nTok
      ]_vars

\* C1 witness: a later invocation is served from the cache, after time has passed
TokenReuseWitness ==
    \E i \in Slots : /\ inv[i].pc = "res_wait"
                     /\ inv[i].nTok = 0
                     /\ inv[i].bearer = "Bearer t1"
                     /\ 0 < now /\ now < token_expiry

\* C2 (SpecConc): at most one token request is in flight at any time.
SingleRefreshInFlight == Cardinality({i \in Slots : inv[i].pc = "token_wait"}) <= 1

NotSupportedTools ==
    {"create_fabric_router", "update_fabric_router", "delete_fabric_router",
     "get_connection_stats"}

\* C3 (Spec): an invocation of a not-supported tool ends, in its first step,
\* with an error text and without any token or resource request.
NotSupportedFastFail ==
    \A i \in Slots :
        (Running(i) /\ inv[i].name \in NotSupportedTools) =>
            /\ inv[i].pc = "done"
            /\ inv[i].exc.type \in {"NotImplementedError", "KeyError"}
            /\ inv[i].result = "Error calling " \o inv[i].name \o ": " \o inv[i].exc.msg
            /\ inv[i].nTok = 0
            /\ inv[i].nRes = 0

\* C4 (Spec): call_tool never propagates an exception to the transport.
NeverPropagates == \A i \in Slots : inv[i].pc # "raised"

\* C5 (Spec): for a name that is no tool name, call_tool returns the text
\* "Unknown tool: <name>", raises nothing and sends no request.
UnknownToolText ==
    \A i \in Slots :
        (Running(i) /\ inv[i].name \notin ToolNames) =>
            /\ inv[i].pc = "done"
            /\ inv[i].result = "Unknown tool: " \o inv[i].name
            /\ inv[i].nTok = 0
            /\ inv[i].nRes = 0

\* the HTTP exchange of a finished invocation failed
ReplyFailed(i) ==
    \/ inv[i].reply.kind = "transport"
    \/ inv[i].reply.kind = "response" /\ ~(inv[i].reply.status \in 200..299)

\* C6 (Spec): every failure of the matched operation is rendered as
\* "Error calling <name>: <message>"; for a non-2xx response of the token or
\* the resource endpoint the message is "HTTP Error <status>: <raw body>" of
\* that response, otherwise it is the text of the exception.
UniformErrorRendering ==
    \A i \in Slots :
        inv[i].pc = "done" =>
            /\ ReplyFailed(i) => inv[i].exc.type # ""
            /\ (inv[i].reply.kind = "response" /\ ~(inv[i].reply.status \in 200..299)) =>
                   inv[i].result = "Error calling " \o inv[i].name \o ": HTTP Error "
                                     \o Str(inv[i].reply.status) \o ": "
                                     \o inv[i].reply.text
            /\ (inv[i].exc.type # "" /\ inv[i].exc.type # "HTTPStatusError") =>
                   inv[i].result = "Error calling " \o inv[i].name \o ": " \o inv[i].exc.msg
            /\ inv[i].exc.type = "HTTPStatusError" =>
                   inv[i].reply.kind = "response" /\ ~(inv[i].reply.status \in 200..299)

\* C6 witness: a 404 of the resource endpoint rendered with its status and body
UniformErrorRenderingWitness ==
    \E i \in Slots :
        /\ inv[i].pc = "done"
        /\ inv[i].name = "delete_connection"
        /\ inv[i].nRes = 1
        /\ inv[i].reply.status = 404
        /\ inv[i].result =
             "Error calling delete_connection: HTTP Error 404: {\"errorCode\": \"EQ-404\"}"

\* the search answered 2xx with a JSON object
RouterSearchAnswered(i) ==
    /\ inv[i].pc = "done"
    /\ inv[i].name = "get_fabric_router"
    /\ inv[i].nRes = 1
    /\ inv[i].reply.kind = "response"
    /\ inv[i].reply.status \in 200..299
    /\ inv[i].reply.json.valid

\* C7 (Spec): get_fabric_router whose search answer has no data list or an
\* empty one yields the not-found error text, never a success payload; with a
\* non-empty data list the result is its first element.
RouterNotFound ==
    \A i \in Slots :
        RouterSearchAnswered(i) =>
            LET json == inv[i].reply.json IN
            IF ~json.hasData \/ json.data = <<>>
            THEN /\ inv[i].exc.type = "ValueError"
                 /\ inv[i].result =
                      "Error calling get_fabric_router: Cloud Router with ID "
                        \o Get(inv[i].passed, "router_id") \o " not found"
            ELSE /\ inv[i].exc.type = ""
                 /\ inv[i].result = "{\n  \"uuid\": \"" \o Head(json.data) \o "\"\n}"

\* C7 witness: a search with an empty data list ended as not found
RouterNotFoundWitness ==
    \E i \in Slots :
        /\ RouterSearchAnswered(i)
        /\ inv[i].reply.json.hasData
        /\ inv[i].reply.json.data = <<>>
        /\ inv[i].result =
             "Error calling get_fabric_router: Cloud Router with ID id1 not found"

\* the keys each branch of call_tool reads unconditionally, in reading order
RequiredKeys(name) ==
    CASE name = "get_fabric_port" -> <<"port_id">>
      [] name = "get_fabric_connection" -> <<"connection_id">>
      [] name = "get_fabric_router" -> <<"router_id">>
      [] name \in {"update_connection", "delete_connection"} -> <<"connection_uuid">>
      [] name = "validate_connection_config" -> <<"connection_config">>
      [] name \in {"update_fabric_router", "delete_fabric_router"} -> <<"router_uuid">>
      [] name = "get_service_profile" -> <<"profile_uuid">>
      [] name \in {"get_service_token", "delete_service_token"} -> <<"token_uuid">>
      [] name = "create_service_token" -> <<"type", "name", "expiration_date">>
      [] name = "create_fabric_connection" ->
           <<"type", "name", "bandwidth", "a_side", "z_side">>
      [] OTHER -> <<>>

LacksAny(d, keys) == \E j \in 1..Len(keys) : ~Has(d, keys[j])

\* a connection request lacks a field, or the type of one of its sides
ConnectionLacks(data) ==
    \/ LacksAny(data, RequiredKeys("create_fabric_connection"))
    \/ ~Has(Get(data, "a_side"), "type")
    \/ ~Has(Get(data, "z_side"), "type")

MissingRequired(name, arguments) ==
    \/ LacksAny(arguments, RequiredKeys(name))
    \/ name = "create_fabric_connection" /\ ConnectionLacks(arguments)
    \/ name = "validate_connection_config"
         /\ ConnectionLacks(Get(arguments, "connection_config"))

\* C8 (Spec): an invocation whose arguments lack a key the operation reads
\* unconditionally ends with the text "Error calling <name>: ..." of the
\* lookup error, without a crash and without a token or resource request.
MissingArgumentRejected ==
    \A i \in Slots :
        (Running(i) /\ inv[i].name \in ToolNames
           /\ MissingRequired(inv[i].name, inv[i].passed)) =>
            /\ inv[i].pc = "done"
            /\ inv[i].exc.type = "KeyError"
            /\ inv[i].result = "Error calling " \o inv[i].name \o ": " \o inv[i].exc.msg
            /\ inv[i].nTok = 0
            /\ inv[i].nRes = 0

PatchPaths == <<"/name", "/description", "/bandwidth", "/notifications">>

PatchField(path) ==
    CASE path = "/name" -> "name"
      [] path = "/description" -> "description"
      [] path = "/bandwidth" -> "bandwidth"
      [] path = "/notifications" -> "notifications"

\* C9 (SpecPatch): the PATCH body of an update holds exactly one replace entry
\* for each of name, description, bandwidth, notifications present in the
\* arguments, in that order whatever the order of the arguments, and nothing
\* else.
PatchDeterminism ==
    (fn_output # <<>> /\ Has(fn_input, "connection_uuid")) =>
        LET plan == fn_output[1]
            patch == plan.body[1]
            paths == [j \in 1..Len(patch) |-> patch[j].path]
        IN /\ plan.kind = "request"
           /\ plan.method = "PATCH"
           /\ paths = SelectSeq(PatchPaths, LAMBDA q : Has(fn_input, PatchField(q)))
           /\ \A j \in 1..Len(patch) :
                /\ DOMAIN patch[j] = {"op", "path", "value"}
                /\ patch[j].op = "replace"
                /\ IF patch[j].path = "/notifications"
                   THEN patch[j].value[1].emails = Get(fn_input, "notifications")
                   ELSE patch[j].value = Get(fn_input, PatchField(patch[j].path))

\* C9 witness: bandwidth given before name, and an unrelated field; the patch is
\* [/name, /bandwidth]
PatchDeterminismWitness ==
    /\ fn_output # <<>>
    /\ KeySeq(fn_input) = <<"bandwidth", "state", "connection_uuid", "name">>
    /\ Len(fn_output[1].body[1]) = 2
    /\ fn_output[1].body[1][1] = [op |-> "replace", path |-> "/name", value |-> "v-name"]
    /\ fn_output[1].body[1][2] = [op |-> "replace", path |-> "/bandwidth", value |-> 100]

\* the key of the descriptor each kind requires
UuidKey(t) == t \o "_uuid"

\* C10 (SpecAP): the access point built for a descriptor of a known kind holds
\* exactly the fields of that kind: port: type COLO, port, linkProtocol;
\* virtual_device: type VD, virtualDevice and possibly interface;
\* service_token: type SERVICE_TOKEN, serviceToken; service_profile: type SP,
\* profile and possibly location.
AccessPointExclusive ==
    (fn_output # <<>> /\ Has(fn_input, "type") /\ Get(fn_input, "type") \in SideTypes) =>
        LET t == Get(fn_input, "type")
            out == fn_output[1]
        IN IF ~Has(fn_input, UuidKey(t)) THEN ~out.ok
           ELSE /\ out.ok
                /\ CASE t = "port" ->
                          /\ DOMAIN out.val = {"type", "port", "linkProtocol"}
                          /\ out.val["type"] = "COLO"
                     [] t = "virtual_device" ->
                          /\ {"type", "virtualDevice"} \subseteq DOMAIN out.val
                          /\ DOMAIN out.val \subseteq {"type", "virtualDevice", "interface"}
                          /\ out.val["type"] = "VD"
                     [] t = "service_token" ->
                          /\ DOMAIN out.val = {"type", "serviceToken"}
                          /\ out.val["type"] = "SERVICE_TOKEN"
                     [] t = "service_profile" ->
                          /\ {"type", "profile"} \subseteq DOMAIN out.val
                          /\ DOMAIN out.val \subseteq {"type", "profile", "location"}
                          /\ out.val["type"] = "SP"

\* C10 witness: a service_token descriptor that also carries the fields of the
\* other kinds yields only type and serviceToken
AccessPointExclusiveWitness ==
    /\ fn_output # <<>>
    /\ Keys(fn_input) = {"type"} \cup {SideFields[j] : j \in 1..Len(SideFields)}
    /\ Get(fn_input, "type") = "service_token"
    /\ fn_output[1].ok
    /\ DOMAIN fn_output[1].val = {"type", "serviceToken"}

\* the access point built for side `key` of the request, once the payload exists
Built_(key) == fn_output[1].val[key].accessPoint

\* what C11 says of one descriptor and the access point built from it
VlanBranching(side, ap) ==
    LET t == Get(side, "type") IN
    /\ t = "port" =>
         /\ Has(side, "vlan") =>
              ap["linkProtocol"] = [type |-> "DOT1Q", vlanTag |-> Get(side, "vlan")]
         /\ ~Has(side, "vlan") => ap["linkProtocol"] = [type |-> "UNTAGGED"]
    /\ t = "virtual_device" =>
         /\ Has(side, "vlan") <=> "interface" \in DOMAIN ap
         /\ Has(side, "vlan") =>
              ap["interface"] = [type |-> "NETWORK", vlanTag |-> Get(side, "vlan")]
    /\ (t = "service_profile" /\ Has(side, "seller_metro_code")) =>
         ap["location"] = [metroCode |-> Get(side, "seller_metro_code")]

\* C11 (SpecPayload): in the payload of a connection request, a port side has
\* linkProtocol {DOT1Q, vlanTag v} exactly when it carries vlan v and
\* {UNTAGGED} exactly when it carries none; a virtual_device side has the
\* tagged interface {NETWORK, vlanTag v} exactly when it carries vlan v and no
\* interface (the untagged configuration) otherwise; a service_profile side
\* with seller_metro_code m has location {metroCode: m}.  The request a_side
\* port p1 vlan 100, z_side service_profile sp1 metro NY gives
\* aSide.accessPoint.linkProtocol = {DOT1Q, 100} and
\* zSide.accessPoint.location = {metroCode: NY}.
VlanBranchingHolds ==
    (fn_output # <<>> /\ fn_output[1].ok) =>
        /\ VlanBranching(Get(fn_input, "a_side"), Built_("aSide"))
        /\ VlanBranching(Get(fn_input, "z_side"), Built_("zSide"))
        /\ fn_input = ConnectionData =>
             /\ Built_("aSide")["linkProtocol"] = [type |-> "DOT1Q", vlanTag |-> 100]
             /\ Built_("zSide")["location"] = [metroCode |-> "NY"]

\* C11 witness: the payload of the end-to-end request of the specification
VlanBranchingWitness ==
    /\ fn_output # <<>>
    /\ fn_input = ConnectionData
    /\ fn_output[1].ok
    /\ Built_("aSide")["linkProtocol"].vlanTag = 100
    /\ Built_("zSide")["location"].metroCode = "NY"

\* the payload member that carries an optional input field
PayloadKey(k) == IF k = "project_id" THEN "project" ELSE k

RequiredPayloadKeys == {"type", "name", "bandwidth", "aSide", "zSide"}

\* C12 (SpecPayload): the payload of _build_connection_payload has the member
\* description, notifications, redundancy, project exactly when the input has
\* description, notifications, redundancy, project_id, carrying the input's
\* value; it has no member besides the five required ones and those of the
\* optional fields present, so an absent field leaves no key, null or
\* placeholder.
OptionalOmission ==
    (fn_output # <<>> /\ fn_output[1].ok) =>
        LET payload == fn_output[1].val
            present == { OptionalFields[i] : i \in 1..Len(OptionalFields) }
                       \cap Keys(fn_input)
        IN /\ DOMAIN payload = RequiredPayloadKeys \cup { PayloadKey(k) : k \in present }
           /\ "description" \in present =>
                payload["description"] = Get(fn_input, "description")
           /\ "notifications" \in present =>
                payload["notifications"]
                    = <<[type |-> "ALL", emails |-> Get(fn_input, "notifications")]>>
           /\ "redundancy" \in present =>
                payload["redundancy"] = Get(fn_input, "redundancy")
           /\ "project_id" \in present =>
                payload["project"] = [projectId |-> Get(fn_input, "project_id")]

\* C12 witness: a payload built from an input with notifications and project_id
\* but neither description nor redundancy
OptionalOmissionWitness ==
    /\ fn_output # <<>>
    /\ fn_output[1].ok
    /\ Keys(fn_input) \cap {"description", "notifications", "redundancy", "project_id"}
         = {"notifications", "project_id"}
    /\ DOMAIN fn_output[1].val
         = RequiredPayloadKeys \cup {"notifications", "project"}

ListTools ==
    {"list_fabric_ports", "list_fabric_connections", "list_fabric_routers",
     "search_connections", "list_service_profiles", "list_service_tokens"}

\* the filters of a list_service_profiles query, as the caller gave them
ProfileFilterText(passed) ==
       (IF GetOr(passed, "metro_code", "") # ""
        THEN "&filter[metroCode]=" \o Get(passed, "metro_code") ELSE "")
    \o (IF GetOr(passed, "service_type", "") # ""
        THEN "&filter[type]=" \o Get(passed, "service_type") ELSE "")
    \o (IF GetOr(passed, "name", "") # ""
        THEN "&filter[name]=" \o Get(passed, "name") ELSE "")

\* the request of invocation c carries offset off and limit lim
SendsPaging(c, off, lim) ==
    LET query == "?offset=" \o Str(off) \o "&limit=" \o Str(lim) IN
    CASE c.name = "list_fabric_ports" -> c.path = API_PREFIX \o "/ports" \o query
      [] c.name = "list_service_tokens" -> c.path = API_PREFIX \o "/serviceTokens" \o query
      [] c.name = "list_service_profiles" ->
           c.path = API_PREFIX \o "/serviceProfiles" \o query \o ProfileFilterText(c.passed)
      [] OTHER ->
           /\ c.body # <<>>
           /\ {"offset", "limit"} \subseteq DOMAIN c.body[1].pagination
           /\ c.body[1].pagination["offset"] = off
           /\ c.body[1].pagination["limit"] = lim

\* C13 (Spec): the request of a list/search tool carries the caller's offset,
\* or 0 when the caller gave none, and the caller's limit, or 20 when the
\* caller gave none.
PaginationDefaults ==
    \A i \in Slots :
        (inv[i].pc = "res_wait" /\ inv[i].name \in ListTools) =>
            SendsPaging(inv[i], GetOr(inv[i].passed, "offset", DefaultOffset),
                        GetOr(inv[i].passed, "limit", DefaultLimit))

\* the query string of a paginated GET, as the caller's arguments determine it
QueryText(passed) ==
    "?offset=" \o Str(GetOr(passed, "offset", DefaultOffset))
    \o "&limit=" \o Str(GetOr(passed, "limit", DefaultLimit))

\* method and path C14 gives for a tool name and the arguments passed to it
Route(name, passed) ==
    CASE name = "list_fabric_ports" -> <<"GET", "/ports" \o QueryText(passed)>>
      [] name = "get_fabric_port" -> <<"GET", "/ports/" \o Get(passed, "port_id")>>
      [] name \in {"list_fabric_connections", "search_connections"} ->
           <<"POST", "/connections/search">>
      [] name = "get_fabric_connection" ->
           <<"GET", "/connections/" \o Get(passed, "connection_id")>>
      [] name = "update_connection" ->
           <<"PATCH", "/connections/" \o Get(passed, "connection_uuid")>>
      [] name = "delete_connection" ->
           <<"DELETE", "/connections/" \o Get(passed, "connection_uuid")>>
      [] name = "create_fabric_connection" -> <<"POST", "/connections">>
      [] name = "validate_connection_config" -> <<"POST", "/connections/validate">>
      [] name \in {"list_fabric_routers", "get_fabric_router"} ->
           <<"POST", "/routers/search">>
      [] name = "list_service_profiles" ->
           <<"GET", "/serviceProfiles" \o QueryText(passed) \o ProfileFilterText(passed)>>
      [] name = "get_service_profile" ->
           <<"GET", "/serviceProfiles/" \o Get(passed, "profile_uuid")>>
      [] name = "create_service_token" -> <<"POST", "/serviceTokens">>
      [] name = "list_service_tokens" -> <<"GET", "/serviceTokens" \o QueryText(passed)>>
      [] name = "get_service_token" ->
           <<"GET", "/serviceTokens/" \o Get(passed, "token_uuid")>>
      [] name = "delete_service_token" ->
           <<"DELETE", "/serviceTokens/" \o Get(passed, "token_uuid")>>

RoutedTools == ToolNames \ (NotSupportedTools \cup {"list_metros"})

\* C14 (Spec): every resource request of a tool goes to the endpoint of its
\* family: GET /ports and /ports/{id}; POST /connections/search for listing and
\* searching, GET, PATCH and DELETE /connections/{id}, POST /connections and
\* /connections/validate; POST /routers/search for listing and getting routers;
\* GET /serviceProfiles with its filters and /serviceProfiles/{id}; POST and
\* GET /serviceTokens, GET and DELETE /serviceTokens/{id}; the identifier in
\* the path is the id argument passed to that invocation.
EndpointRouting ==
    \A i \in Slots :
        (inv[i].pc = "res_wait" /\ inv[i].name \in RoutedTools) =>
            /\ inv[i].method = Route(inv[i].name, inv[i].passed)[1]
            /\ inv[i].path = API_PREFIX \o Route(inv[i].name, inv[i].passed)[2]

\* C14 witness: a delete_service_token request in flight for the token id2
EndpointRoutingWitness ==
    \E i \in Slots :
        /\ inv[i].pc = "res_wait"
        /\ inv[i].name = "delete_service_token"
        /\ Get(inv[i].passed, "token_uuid") = "id2"
        /\ inv[i].method = "DELETE"
        /\ inv[i].path = "/fabric/v4/serviceTokens/id2"

\* the token responses a fetch succeeds on: 2xx, JSON, access_token, and an
\* expires_in that is a number or absent
Granted == { r \in TokenResponses :
               /\ r.kind = "response" /\ IsSuccess(r.status)
               /\ r.valid /\ r.hasToken /\ r.expires_in.numeric }

\* the lifetime a granted response announces
Lifetime(r) == IF r.expires_in.present THEN r.expires_in.value ELSE DefaultExpiresIn

\* C15 (SpecConc): in every step of every interleaving the cached pair is left
\* as it is or written whole by one successful fetch: access_token and
\* token_expiry both come from the same granted response, so no reader can
\* find a token beside the expiry of another fetch.
NoTornCredential ==
    [][ \/ access_token' = access_token /\ token_expiry' = token_expiry
        \/ \E r \in Granted :
              /\ access_token' = r.token
              /\ token_expiry' = now + Lifetime(r) - ExpiryMargin ]_vars

\* C16 (Spec): access_token and token_expiry change only in a step in which
\* get_access_token of some invocation returns its freshly fetched token; a
\* token request that fails, and every other operation, leaves both as they
\* were.
CredentialWrittenOnlyOnSuccess ==
    [][ (access_token' # access_token \/ token_expiry' # token_expiry) =>
            \E i \in Slots :
                /\ inv[i].pc = "token_wait"
                /\ inv'[i].pc = "res_wait"
                /\ inv'[i].bearer = "Bearer " \o access_token' ]_vars

\* the expires_in of the token response invocation c fetched, 3600 when absent
FetchedLifetime(c) ==
    IF c.expires_in.present THEN c.expires_in.value ELSE DefaultExpiresIn

\* C17 (Spec): a successful fetch at time now that returns expires_in (3600
\* when absent) stores the expiry now + expires_in - 60, which is not after
\* now when expires_in <= 60; and an invocation is handed the cached token
\* only at a time strictly before the stored expiry, so never in the last 60
\* seconds of the token's lifetime and never when expires_in <= 60.
ExpiryMarginKept ==
    [][ \A i \in Slots :
          /\ (inv[i].pc = "token_wait" /\ inv'[i].pc = "res_wait") =>
                /\ token_expiry' = now + FetchedLifetime(inv'[i]) - 60
                /\ FetchedLifetime(inv'[i]) <= 60 => ~(now < token_expiry')
          /\ (inv[i].pc = "idle" /\ inv'[i].pc = "res_wait") =>
                /\ now < token_expiry
                /\ inv'[i].bearer = "Bearer " \o access_token ]_vars

\* C17 witness: a token fetched with expires_in 120 at time 0 is in the cache
\* at time 60, the first instant of its last 60 seconds, and the invocation
\* that finds it there has asked for a new one
ExpiryMarginKeptWitness ==
    \E i \in Slots :
        /\ inv[i].pc = "token_wait"
        /\ access_token = "t1"
        /\ token_expiry = 60
        /\ now = 60

\* C18 (Spec): an invocation sends its resource request only in the step in
\* which its own get_access_token returns, either the cached token (cache
\* valid, no token request) or the token just fetched, and the request carries
\* exactly that token as bearer; an invocation whose token request fails ends
\* without having sent a resource request.
TokenBeforeRequest ==
    [][ \A i \in Slots :
          /\ inv'[i].nRes # inv[i].nRes =>
                \/ inv'[i] = Idle
                \/ /\ inv'[i].pc = "res_wait"
                   /\ \/ /\ inv[i].pc = "idle"
                         /\ access_token \notin {"None", ""} /\ now < token_expiry
                         /\ inv'[i].nTok = 0
                         /\ inv'[i].bearer = "Bearer " \o access_token
                      \/ /\ inv[i].pc = "token_wait"
                         /\ inv'[i].reply.kind = "response"
                         /\ IsSuccess(inv'[i].reply.status)
                         /\ inv'[i].bearer = "Bearer " \o access_token'
          /\ inv'[i].pc = "res_wait" => inv'[i].nRes = 1
          /\ (inv[i].pc = "token_wait" /\ inv'[i].pc \notin {"token_wait", "res_wait"}) =>
                /\ inv'[i].pc = "done"
                /\ inv'[i].nRes = 0
                /\ inv'[i].bearer = "" ]_vars

\* C18 witness: a resource request in flight that carries the token t2 its
\* invocation has just fetched
TokenBeforeRequestWitness ==
    \E i \in Slots :
        /\ inv[i].pc = "res_wait"
        /\ inv[i].nTok = 1
        /\ inv[i].nRes = 1
        /\ access_token = "t2"
        /\ inv[i].bearer = "Bearer t2"

\* invocation i receives, in this step, an answer that makes its request fail
RequestFails(i) ==
    /\ inv[i].pc \in {"token_wait", "res_wait"}
    /\ inv'[i].reply # inv[i].reply
    /\ \/ inv'[i].reply.kind = "transport"
       \/ ~IsSuccess(inv'[i].reply.status)

\* C19 (Spec): an invocation sends at most one token request and at most one
\* resource request; when the answer to either is a transport failure or a
\* non-2xx status the invocation ends in that step with the error as its
\* result and no further request, and a finished invocation does nothing more.
NoRetry ==
    [][ \A i \in Slots :
          /\ inv'[i].nTok <= 1
          /\ inv'[i].nRes <= 1
          /\ RequestFails(i) =>
                /\ inv'[i].pc = "done"
                /\ inv'[i].exc.type \in {"HTTPStatusError", "ConnectError"}
                /\ inv'[i].result = ErrorText(inv[i].name, inv'[i].exc)
                /\ inv'[i].nTok = inv[i].nTok
                /\ inv'[i].nRes = inv[i].nRes
          /\ inv[i].pc \in {"done", "raised"} =>
                inv'[i] = Idle \/ inv'[i] = inv[i] ]_vars

\* C19 witness: an invocation finished by a 500 of the resource endpoint after
\* one token request and one resource request
NoRetryWitness ==
    \E i \in Slots :
        /\ inv[i].pc = "done"
        /\ inv[i].reply.status = 500
        /\ inv[i].exc.type = "HTTPStatusError"
        /\ inv[i].nTok = 1
        /\ inv[i].nRes = 1

\* the one operation of an implemented tool name, as method and path
OperationOf(name, passed) ==
    IF name = "list_metros" THEN <<"GET", "/metros">> ELSE Route(name, passed)

\* C20 (Spec): call_tool selects by exact equality of the name: a name that is
\* not literally one of the tool names (a near miss, a case variant, the empty
\* name) selects nothing and sends no request; an implemented name selects its
\* one operation, which is built from the arguments passed to this invocation;
\* an invocation holds one operation from dispatch to its end and sends at
\* most one resource request.
OneOperationPerInvocation ==
    [][ \A i \in Slots :
          /\ (inv[i].pc = "idle" /\ inv'[i].pc # "idle") =>
                /\ inv'[i].name \notin ToolNames =>
                      /\ inv'[i].pc \in {"done", "raised"}
                      /\ inv'[i].nTok = 0 /\ inv'[i].nRes = 0
                      /\ inv'[i].method = "" /\ inv'[i].path = ""
                      /\ inv'[i].pc = "done" =>
                            inv'[i].result = "Unknown tool: " \o inv'[i].name
                /\ inv'[i].pc \in {"token_wait", "res_wait"} =>
                      /\ inv'[i].name \in ToolNames \ NotSupportedTools
                      /\ inv'[i].method = OperationOf(inv'[i].name, inv'[i].passed)[1]
                      /\ inv'[i].path =
                           API_PREFIX \o OperationOf(inv'[i].name, inv'[i].passed)[2]
                      /\ inv'[i].nTok + inv'[i].nRes = 1
          /\ (inv[i].pc \in {"token_wait", "res_wait"} /\ inv'[i] # Idle) =>
                /\ inv'[i].name = inv[i].name
                /\ inv'[i].passed = inv[i].passed
                /\ inv'[i].method = inv[i].method
                /\ inv'[i].path = inv[i].path
                /\ inv'[i].body = inv[i].body
                /\ inv'[i].nRes <= 1 ]_vars

\* C20 witness: the case variant List_Metros of an implemented name has
\* selected nothing while the credentials are configured
OneOperationPerInvocationWitness ==
    \E i \in Slots :
        /\ env_ok
        /\ inv[i].pc = "done"
        /\ inv[i].name = "List_Metros"
        /\ inv[i].result = "Unknown tool: List_Metros"
        /\ inv[i].nRes = 0

ConnectionTools == {"create_fabric_connection", "validate_connection_config"}

\* the connection request an invocation of a connection tool was given
ConfigOf(c) ==
    IF c.name = "create_fabric_connection" THEN c.passed
    ELSE GetOr(c.passed, "connection_config", <<>>)

MissingType(side) == ~Has(side, "type")

UnknownType(side) == Has(side, "type") /\ Get(side, "type") \notin SideTypes

\* the invocation in slot i has entered a connection operation with a request
\* that has all five members and whose sides are each well formed or satisfy Odd
EnteredWith(i, Odd(_)) ==
    /\ inv[i].pc \in {"token_wait", "res_wait", "done"}
    /\ inv[i].name \in ConnectionTools
    /\ {"type", "name", "bandwidth", "a_side", "z_side"} \subseteq Keys(ConfigOf(inv[i]))
    /\ \A k \in {"a_side", "z_side"} :
          \/ Get(ConfigOf(inv[i]), k) \in {PortSide, ProfileSide}
          \/ Odd(Get(ConfigOf(inv[i]), k))
    /\ \E k \in {"a_side", "z_side"} : Odd(Get(ConfigOf(inv[i]), k))

\* the request of slot i went out, with an empty access point for each side
\* that satisfies Odd
DispatchedEmpty(i, Odd(_)) ==
    /\ inv[i].nTok + inv[i].nRes >= 1
    /\ inv[i].body # <<>>
    /\ Odd(Get(ConfigOf(inv[i]), "a_side")) =>
          DOMAIN inv[i].body[1]["aSide"].accessPoint = {}
    /\ Odd(Get(ConfigOf(inv[i]), "z_side")) =>
          DOMAIN inv[i].body[1]["zSide"].accessPoint = {}

\* C21 as stated (Spec): a side whose type is missing or is none of the four
\* kinds raises no error and becomes an empty access point, and the create or
\* validate operation sends its request with it.
EmptyAccessPointDispatched ==
    \A i \in Slots :
        EnteredWith(i, LAMBDA side : MissingType(side) \/ UnknownType(side)) =>
            DispatchedEmpty(i, LAMBDA side : MissingType(side) \/ UnknownType(side))

\* C21 amended (Spec): a side whose type is present but none of the four kinds
\* raises no error and becomes an empty access point, and the create or
\* validate operation sends its request with it; a side with no type at all
\* raises KeyError('type'), and the invocation ends with the error text
\* without sending any request.
UnknownTypeDispatchedMissingTypeRejected ==
    \A i \in Slots :
        /\ EnteredWith(i, UnknownType) => DispatchedEmpty(i, UnknownType)
        /\ EnteredWith(i, MissingType) =>
              /\ inv[i].pc = "done"
              /\ inv[i].nTok = 0 /\ inv[i].nRes = 0
              /\ inv[i].body = <<>>
              /\ inv[i].exc.type = "KeyError"
              /\ inv[i].result = "Error calling " \o inv[i].name \o ": 'type'"

\* C21 witness: validate_connection_config has sent its request with an empty
\* access point for an a_side of type cloud
UnknownTypeDispatchedWitness ==
    \E i \in Slots :
        /\ inv[i].pc = "res_wait"
        /\ inv[i].name = "validate_connection_config"
        /\ Get(Get(ConfigOf(inv[i]), "a_side"), "type") = "cloud"
        /\ inv[i].path = "/fabric/v4/connections/validate"
        /\ DOMAIN inv[i].body[1]["aSide"].accessPoint = {}

\* the resource request of the invocation in slot i has failed
ResourceFailed(c) ==
    /\ c.pc = "done"
    /\ c.nRes = 1
    /\ \/ c.reply.kind = "transport"
       \/ c.reply.kind = "response" /\ ~IsSuccess(c.reply.status)

\* C22 (Spec): the step in which a resource request fails with a non-2xx
\* status (401 included) or a transport failure leaves access_token and
\* token_expiry as they were, and so does the delivery of that invocation's
\* result; an invocation that starts while a token is cached and the time is
\* before token_expiry sends its request with that token and no token request.
FailedRequestKeepsCache ==
    [][ \A i \in Slots :
          /\ (inv[i].pc = "res_wait" /\ ResourceFailed(inv'[i])) =>
                /\ access_token' = access_token
                /\ token_expiry' = token_expiry
          /\ (ResourceFailed(inv[i]) /\ inv'[i].pc = "idle") =>
                /\ access_token' = access_token
                /\ token_expiry' = token_expiry
          /\ (inv[i].pc = "idle" /\ inv'[i].pc \in {"token_wait", "res_wait"}
              /\ access_token \notin {"None", ""} /\ now < token_expiry) =>
                /\ inv'[i].pc = "res_wait"
                /\ inv'[i].nTok = 0
                /\ inv'[i].bearer = "Bearer " \o access_token ]_vars

\* C22 witness: an invocation has ended on a 401 of the resource endpoint and
\* the token t1 it sent is still cached and not yet expired
FailedRequestKeepsCacheWitness ==
    \E i \in Slots :
        /\ ResourceFailed(inv[i])
        /\ inv[i].reply.status = 401
        /\ inv[i].bearer = "Bearer t1"
        /\ access_token = "t1"
        /\ now < token_expiry

\* C23 (Spec): when call_tool has returned its result, success or error, the
\* caller's arguments mapping holds the keys and values it was passed with.
ArgumentsUntouched ==
    \A i \in Slots :
        inv[i].pc = "done" =>
            /\ Keys(inv[i].arguments) = Keys(inv[i].passed)
            /\ \A k \in Keys(inv[i].passed) :
                  Has(inv[i].arguments, k) =>
                      Get(inv[i].arguments, k) = Get(inv[i].passed, k)

\* C24 (Spec): for every tool but get_fabric_router, an invocation whose
\* resource request was answered with a 2xx status, with or without a body,
\* ends without an exception and with a result that is no "Error calling
\* <name>" text.
SuccessOn2xx ==
    \A i \in Slots :
        (/\ inv[i].pc = "done"
         /\ inv[i].nRes = 1
         /\ inv[i].name # "get_fabric_router"
         /\ inv[i].reply.kind = "response"
         /\ IsSuccess(inv[i].reply.status)) =>
            /\ inv[i].exc.type = ""
            /\ inv[i].result # "Error calling " \o inv[i].name \o ": " \o inv[i].exc.msg

====
